---- MODULE Spec2Model ----
(***************************************************************************)
(* Parsegen (src/parsegen.py): parse_buffer and write_grammar as a state   *)
(* machine.  Text is a sequence of one-character strings, so that the      *)
(* string operations of the source (split, partition, strip) are computed  *)
(* and not assumed.  A name (terminal, nonterminal, option) is the         *)
(* character sequence the source uses as dictionary key.                   *)
(***************************************************************************)
EXTENDS Integers, Sequences, FiniteSets, TLC

VARIABLES buffer, pc, sects, terminals, options, order, expansions,
          user_code, err, si, ei, changed, passes, out

vars == <<buffer, pc, sects, terminals, options, order, expansions,
          user_code, err, si, ei, changed, passes, out>>

----------------------------------------------------------------------------
(* Python string primitives                                                *)

\* The characters str.strip() and str.split() treat as whitespace.
Whitespace == {" ", "\t", "\n"}

\* s[from:] as a sequence (empty when from is past the end).
Drop(s, n) == SubSeq(s, n + 1, Len(s))

\* s.startswith(sep) at position p (1-based).
MatchAt(s, sep, p) ==
    /\ p + Len(sep) - 1 <= Len(s)
    /\ \A k \in 1..Len(sep) : s[p + k - 1] = sep[k]

\* s.find(sep) + 1: the 1-based index of the first occurrence, 0 if none.
Find(s, sep) ==
    LET hits == {p \in 1..Len(s) : MatchAt(s, sep, p)}
    IN  IF hits = {} THEN 0 ELSE CHOOSE p \in hits : \A q \in hits : p <= q

\* s.partition(sep): <<head, sep, tail>>, or <<s, "", "">> without sep.
Partition(s, sep) ==
    LET p == Find(s, sep)
    IN  IF p = 0 THEN <<s, <<>>, <<>>>>
        ELSE <<SubSeq(s, 1, p - 1), sep, Drop(s, p + Len(sep) - 1)>>

\* split that resumes one character after a match, not after the separator.
RECURSIVE Split_overlapping(_, _)
Split_overlapping(s, sep) ==
    LET p == Find(s, sep)
    IN  IF p = 0 THEN <<s>>
        ELSE <<SubSeq(s, 1, p - 1)>> \o Split_overlapping(Drop(s, p), sep)

\* s.split(sep) for a non-empty separator.
RECURSIVE Split(_, _)
Split(s, sep) ==
    LET p == Find(s, sep)
    IN  IF p = 0 THEN <<s>>
        ELSE <<SubSeq(s, 1, p - 1)>> \o Split(Drop(s, p + Len(sep) - 1), sep)

RECURSIVE LStrip(_)
LStrip(s) == IF s # <<>> /\ Head(s) \in Whitespace THEN LStrip(Tail(s)) ELSE s

RECURSIVE RStrip(_)
RStrip(s) ==
    IF s # <<>> /\ s[Len(s)] \in Whitespace
    THEN RStrip(SubSeq(s, 1, Len(s) - 1)) ELSE s

\* s.strip()
Strip(s) == RStrip(LStrip(s))

\* s.split(): the maximal runs of non-whitespace characters.
RECURSIVE SplitWhitespace(_)
SplitWhitespace(s) ==
    LET t == LStrip(s)
        ends == {p \in 1..Len(t) : t[p] \in Whitespace}
        e == IF ends = {} THEN Len(t) + 1
             ELSE CHOOSE p \in ends : \A q \in ends : p <= q
    IN  IF t = <<>> THEN <<>>
        ELSE <<SubSeq(t, 1, e - 1)>> \o SplitWhitespace(Drop(t, e - 1))

\* sep.join(parts)
RECURSIVE Join(_, _)
Join(parts, sep) ==
    IF parts = <<>> THEN <<>>
    ELSE IF Len(parts) = 1 THEN parts[1]
    ELSE parts[1] \o sep \o Join(Tail(parts), sep)

Range(s) == {s[k] : k \in DOMAIN s}

----------------------------------------------------------------------------
(* Dictionaries: a function from keys to values.                           *)

EmptyDict == [k \in {} |-> <<>>]

\* dict.setdefault(key, val): the first value of a key is kept.
DictSet_setdefault(dict, key, val) ==
    [k \in (DOMAIN dict) \cup {key} |-> IF k \in DOMAIN dict THEN dict[k] ELSE val]

\* dict[key] = val
DictSet(dict, key, val) ==
    [k \in (DOMAIN dict) \cup {key} |-> IF k = key THEN val ELSE dict[k]]

----------------------------------------------------------------------------
(* Errors: the exception raised, with the values its message is formatted  *)
(* from ("parsegen: <kind>: <what with name or count>").                   *)

NoError == [kind |-> "none", what |-> "", name |-> <<>>, count |-> 0]

ParseError(n) ==
    [kind |-> "parse error", what |-> "expected 3 sections but found {0}",
     name |-> <<>>, count |-> n]

GrammarError(what, n) ==
    [kind |-> "grammar error", what |-> what, name |-> n, count |-> 0]

----------------------------------------------------------------------------
(* Line processing                                                         *)

\* One line of _processed_lines: the comment removed, then stripped.
_processed_line(l) == Strip(Partition(l, <<"#">>)[1])

\* The non-empty lines of the text, comments removed, in order.
_processed_lines(text) ==
    LET raw == Split(text, <<"\n">>)
        cooked == [k \in DOMAIN raw |-> _processed_line(raw[k])]
    IN  SelectSeq(cooked, LAMBDA l : Len(l) > 0)

\* <<key, val>> of the line, both stripped.
_kv_with_sep(opt_line, sep) ==
    LET parts == Partition(opt_line, sep)
    IN  <<Strip(parts[1]), Strip(parts[3])>>

_add_opt_to_dict(opt_line, dict, sep) ==
    LET kv == _kv_with_sep(opt_line, sep)
    IN  DictSet(dict, kv[1], kv[2])

\* The loop of _process_header over the processed lines, from the dicts so far.
RECURSIVE _process_header_lines(_, _, _)
_process_header_lines(lines, terms, opts) ==
    IF lines = <<>> THEN [terminals |-> terms, options |-> opts]
    ELSE LET l == Head(lines)
         IN  IF SubSeq(l, 1, 1) = <<"%">>
             THEN _process_header_lines(Tail(lines), terms,
                                        _add_opt_to_dict(Drop(l, 1), opts, <<"=">>))
             ELSE _process_header_lines(Tail(lines),
                                        _add_opt_to_dict(l, terms, <<"=">>), opts)

_process_header(header) ==
    _process_header_lines(_processed_lines(header), EmptyDict, EmptyDict)

\* Header.get_option
get_option(opts, option, default) ==
    IF option \in DOMAIN opts THEN opts[option] ELSE default

----------------------------------------------------------------------------
(* Symbol                                                                  *)

Symbol == [expansions |-> <<>>, nullable |-> FALSE, first |-> {}, follow |-> {}]

set_nullable(s) == [s EXCEPT !.nullable = TRUE]

\* add_expansion that inserts at the front of the list.
add_expansion_front(s, expansion) ==
    LET t == [s EXCEPT !.expansions = <<expansion>> \o @]
    IN  IF expansion = <<>> THEN [t EXCEPT !.nullable = TRUE] ELSE t

add_expansion(s, expansion) ==
    LET t == [s EXCEPT !.expansions = Append(@, expansion)]
    IN  IF expansion = <<>> THEN set_nullable(t) ELSE t

\* is_nullable with the test of line 134 inverted.
is_nullable_inverted(s) == IF Len(s.expansions) # 0 THEN TRUE ELSE s.nullable

is_nullable(s) == IF Len(s.expansions) = 0 THEN TRUE ELSE s.nullable

\* values is the set of the values passed (set(values) in the source).
_union_set_with_values(set_ref, values) == set_ref \cup values

\* add_first assigning the values instead of uniting them with the set.
add_first_replacing(s, values) == [s EXCEPT !.first = values]

\* Symbol.add_first, lines 149-156
add_first(s, values) ==
    [s EXCEPT !.first = _union_set_with_values(s.first, values)]

----------------------------------------------------------------------------
(* The symbol table: the dict of _process_expansions, as the keys in       *)
(* insertion order (order) and the Symbol of each key (map).               *)

\* The loop of _process_expansions over the processed lines.
RECURSIVE _process_expansion_lines(_, _)
_process_expansion_lines(lines, exps) ==
    IF lines = <<>> THEN exps
    ELSE LET kv == _kv_with_sep(Head(lines), <<":", "=">>)
             sym == kv[1]
             s == IF sym \in DOMAIN exps.map THEN exps.map[sym] ELSE Symbol
             t == add_expansion(s, SplitWhitespace(kv[2]))
         IN  _process_expansion_lines(Tail(lines),
                 [order |-> IF sym \in DOMAIN exps.map THEN exps.order
                            ELSE Append(exps.order, sym),
                  map |-> DictSet(exps.map, sym, t)])

_process_expansions(text) ==
    _process_expansion_lines(_processed_lines(text),
                             [order |-> <<>>, map |-> EmptyDict])

----------------------------------------------------------------------------
(* Set computation                                                         *)

\* _first_undefined without `or e in expansions` at line 473.
_first_undefined_terminals_only(terms, exps, exp) ==
    LET bad == {p \in 1..Len(exp) : ~(exp[p] \in DOMAIN terms)}
    IN  IF bad = {} THEN 0 ELSE CHOOSE p \in bad : \A q \in bad : p <= q

\* Position of the first token of exp that is neither a terminal nor a
\* nonterminal (the inner loop at lines 472-475), 0 if there is none.
_first_undefined(terms, exps, exp) ==
    LET bad == {p \in 1..Len(exp) :
                  ~(exp[p] \in DOMAIN terms \/ exp[p] \in DOMAIN exps)}
    IN  IF bad = {} THEN 0 ELSE CHOOSE p \in bad : \A q \in bad : p <= q

\* The test of line 469 without `exp[0] in header.terminals`.
_begins_with_any_token(terms, exp) == exp # <<>>

\* `exp and exp[0] in header.terminals`, line 469
_begins_with_terminal(terms, exp) == exp # <<>> /\ exp[1] \in DOMAIN terms

\* The loop over symbol.expansions of _initialise_expansions_state, from
\* expansion k on: the symbol as it is left, and the error raised if any.
RECURSIVE _initialise_symbol_expansions(_, _, _, _)
_initialise_symbol_expansions(terms, exps, symbol, k) ==
    IF k > Len(symbol.expansions) THEN [symbol |-> symbol, err |-> NoError]
    ELSE LET exp == symbol.expansions[k]
             s == IF _begins_with_terminal(terms, exp)
                  THEN add_first(symbol, {exp[1]}) ELSE symbol
             p == _first_undefined(terms, exps, exp)
         IN  IF p # 0
             THEN [symbol |-> s,
                   err |-> GrammarError(
                       "{0} is not defined as a terminal or nonterminal", exp[p])]
             ELSE _initialise_symbol_expansions(terms, exps, s, k + 1)

\* _initialise_symbol without the test of lines 464-465.
_initialise_symbol_no_collision_test(terms, exps, name) ==
    _initialise_symbol_expansions(terms, exps, exps[name], 1)

\* One iteration of the outer loop of _initialise_expansions_state.
_initialise_symbol(terms, exps, name) ==
    IF name \in DOMAIN terms
    THEN [symbol |-> exps[name],
          err |-> GrammarError("expansion for nonterminal {0}", name)]
    ELSE _initialise_symbol_expansions(terms, exps, exps[name], 1)

\* The subset test of line 501 lost: every visit of a nonterminal is a change.
_first_issubset_never(other_sym, symbol) == FALSE

\* other_sym.first.issubset(symbol.first), line 501
_first_issubset(other_sym, symbol) == other_sym.first \subseteq symbol.first

\* The scan of _update_first_from_expansion over the tokens still to visit:
\* the symbol table as it is left and whether anything changed.
RECURSIVE _update_first_scan(_, _, _, _, _)
_update_first_scan(terms, exps, name, tokens, chg) ==
    IF tokens = <<>>
    THEN \* the for loop ended without break
         IF ~is_nullable(exps[name])
         THEN [map |-> [exps EXCEPT ![name] = set_nullable(@)], changed |-> TRUE]
         ELSE [map |-> exps, changed |-> chg]
    ELSE LET e == Head(tokens)
         IN  IF e \in DOMAIN terms THEN [map |-> exps, changed |-> chg]
             ELSE LET grow == ~_first_issubset(exps[e], exps[name])
                      exps1 == IF grow
                               THEN [exps EXCEPT ![name] = add_first(@, exps[e].first)]
                               ELSE exps
                      chg1 == chg \/ grow
                  IN  IF ~is_nullable(exps1[e])
                      THEN [map |-> exps1, changed |-> chg1]
                      ELSE _update_first_scan(terms, exps1, name, Tail(tokens), chg1)

_update_first_from_expansion(terms, exps, name, expansion) ==
    _update_first_scan(terms, exps, name, expansion, FALSE)

\* Follow sets are not implemented: never a change.
_update_follow_from_expansion(terms, name, expansion) == FALSE

----------------------------------------------------------------------------
(* Code emission: what write_grammar writes, as a sequence of records, one *)
(* per formatted piece of text, holding the values formatted into it.      *)

Emit(op, text, n, args) == [op |-> op, text |-> text, n |-> n, args |-> args]

\* The option names and defaults of the emitter.
C_prefix == <<"p", "r", "e", "f", "i", "x">>
C_yy == <<"y", "y">>
C_token_t == <<"t", "o", "k", "e", "n", "_", "t">>
C_token_type == <<"t", "o", "k", "e", "n", "_", "t", "y", "p", "e">>
C_lexer_function ==
    <<"l", "e", "x", "e", "r", "_", "f", "u", "n", "c", "t", "i", "o", "n">>
C_get_next_token ==
    <<"g", "e", "t", "_", "n", "e", "x", "t", "_", "t", "o", "k", "e", "n">>
C_lexer_include ==
    <<"l", "e", "x", "e", "r", "_", "i", "n", "c", "l", "u", "d", "e">>
C_lexer_h == <<"<", "l", "e", "x", "e", "r", ".", "h", ">">>

\* default is <<>> for None (or an empty string): the bare prefix.
_prefixed_default(opts, default) ==
    LET prefix == get_option(opts, C_prefix, C_yy)
    IN  IF default # <<>> THEN prefix \o <<"_">> \o default ELSE prefix

_write_header_to_file(opts) ==
    << Emit("section: global includes", <<>>, 0, <<>>),
       Emit("#include", get_option(opts, C_lexer_include, C_lexer_h), 0, <<>>) >>

_write_helpers_to_file(opts) ==
    << Emit("section: utility methods", <<>>, 0, <<>>),
       Emit("helpers",
            get_option(opts, C_token_type, _prefixed_default(opts, C_token_t)), 0,
            << _prefixed_default(opts, <<>>),
               get_option(opts, C_lexer_function,
                          _prefixed_default(opts, C_get_next_token)) >>) >>

\* The count of the tokens that are terminals.
_count_terminals(terms, expansion) ==
    Cardinality({p \in 1..Len(expansion) : expansion[p] \in DOMAIN terms})

\* The number of tokens of the expansion that are not terminals.
_count_nodes(terms, expansion) ==
    Cardinality({p \in 1..Len(expansion) : ~(expansion[p] \in DOMAIN terms)})

_get_counts(terms, symbol) ==
    LET counts == {_count_nodes(terms, symbol.expansions[k]) :
                     k \in 1..Len(symbol.expansions)} \cup {0}
    IN  CHOOSE n \in counts : \A m \in counts : m <= n

_write_symbol_function_begin(terms, opts, name, symbol) ==
    << Emit("function", name, _get_counts(terms, symbol),
            << _prefixed_default(opts, <<>>),
               get_option(opts, C_token_type,
                          _prefixed_default(opts, C_token_t)) >>) >>

\* The predicting terminals as the FIRST set of the whole expansion: the
\* union over the tokens reached through nullable nonterminals.
_predicting_terms_of_prefix(terms, exps, expansion) ==
    UNION {IF expansion[p] \in DOMAIN terms THEN {expansion[p]}
           ELSE exps[expansion[p]].first :
             p \in {q \in 1..Len(expansion) :
                      \A r \in 1..(q - 1) :
                         /\ expansion[r] \notin DOMAIN terms
                         /\ is_nullable(exps[expansion[r]])}}

\* The terminals whose case labels open the branch of a non-empty expansion.
_predicting_terms(terms, exps, expansion) ==
    IF expansion[1] \in DOMAIN terms THEN {expansion[1]}
    ELSE exps[expansion[1]].first

\* str(n) for n >= 0
RECURSIVE Decimal(_)
Decimal(n) ==
    LET d == <<"0", "1", "2", "3", "4", "5", "6", "7", "8", "9">>[(n % 10) + 1]
    IN  IF n < 10 THEN <<d>> ELSE Decimal(n \div 10) \o <<d>>

\* "nodes[{0}]".format(node)
_node_temp(node) == <<"n", "o", "d", "e", "s", "[">> \o Decimal(node) \o <<"]">>

\* The second loop of _write_body_for_expansion from token p on, node being
\* the next free slot: the steps written and the parameters collected.
RECURSIVE _write_body_steps(_, _, _, _)
_write_body_steps(terms, expansion, p, node) ==
    IF p > Len(expansion) THEN [steps |-> <<>>, params |-> <<>>]
    ELSE LET sym == expansion[p]
         IN  IF sym \in DOMAIN terms
             THEN LET rest == _write_body_steps(terms, expansion, p + 1, node)
                  IN  [steps |-> <<Emit("eat_terminal", terms[sym], 0, <<>>)>>
                                  \o rest.steps,
                       params |-> <<terms[sym]>> \o rest.params]
             ELSE LET rest == _write_body_steps(terms, expansion, p + 1, node + 1)
                  IN  [steps |-> <<Emit("nodes[i] = sym()", sym, node, <<>>)>>
                                  \o rest.steps,
                       params |-> <<_node_temp(node)>> \o rest.params]

\* cases is the order in which the predicting terminals are iterated.
_write_body_for_expansion(terms, exps, name, expansion, cases) ==
    IF expansion = <<>> THEN <<>>
    ELSE LET body == _write_body_steps(terms, expansion, 1, 0)
         IN  [k \in 1..Len(cases) |-> Emit("case", terms[cases[k]], 0, <<>>)]
             \o body.steps
             \o << Emit("token_action", name, 0, body.params),
                   Emit("break", <<>>, 0, <<>>) >>

_write_symbol_function_end == << Emit("end function", <<>>, 0, <<>>) >>

_write_user_code_to_file(code_block) ==
    << Emit("section: user code", <<>>, 0, <<>>),
       Emit("user code", code_block, 0, <<>>) >>

\* The orders in which a set can be iterated.
Orderings(S) ==
    {f \in [1..Cardinality(S) -> S] : \A a, b \in DOMAIN f : f[a] = f[b] => a = b}

----------------------------------------------------------------------------
(* Inputs                                                                  *)

\* Largest number of rule lines of a generated grammar.
MaxRules == 3
\* Largest number of tokens on the right-hand sides of a generated grammar.
MaxTokens == 2
\* Largest number of lines of a generated header or rules section.
MaxLines == 3
\* Largest length of a generated raw buffer.
MaxBuffer == 6

Delimiter == <<"%", "%">>

\* The names of the generated grammars: t is declared a terminal, a and b
\* are not (b is undefined in a grammar without a rule for b).
GrammarNames == {<<"a">>, <<"b">>, <<"t">>}
GrammarHeader == <<"t", "=", "T">>

RuleLine(lhs, rhs) == lhs \o <<":", "=">> \o Join(rhs, <<" ">>)

RECURSIVE Sum(_)
Sum(ns) == IF ns = <<>> THEN 0 ELSE Head(ns) + Sum(Tail(ns))

\* The text of the grammar whose k-th rule has the left-hand side lhs[k] and
\* as right-hand side the next lens[k] tokens of toks.
GrammarBuffer(lhs, lens, toks) ==
    LET from(k) == Sum(SubSeq(lens, 1, k - 1))
        lines == [k \in DOMAIN lhs |->
                    RuleLine(lhs[k], SubSeq(toks, from(k) + 1, from(k) + lens[k]))]
    IN  GrammarHeader \o Delimiter \o Join(lines, <<"\n">>) \o Delimiter

\* buffer is a generated grammar of at most MaxRules rule lines with at most
\* MaxTokens tokens in all.
GeneratedGrammar(b) ==
    \E k \in 0..MaxRules :
      \E lens \in [1..k -> 0..MaxTokens] :
        /\ Sum(lens) <= MaxTokens
        /\ \E lhs \in [1..k -> GrammarNames], toks \in [1..Sum(lens) -> GrammarNames] :
             b = GrammarBuffer(lhs, lens, toks)

\* test_parsegen.py line 51: " %% %% "
TestBuffer1 ==
    <<" ", "%", "%", " ", "%", "%", " ">>

\* test_parsegen.py line 55: "\n\t\tTOKEN = Tok_TOKEN\n\t\tFUZZBAZ\n\t\t%language = c\n\t\t%lexer_entry = Lex_getNextToken();\n\t\t%%\n\t\t# empty grammar section\n\t\t%%\n\t\tuser_code and stuff\n\t\t"
TestBuffer2 ==
    <<"\n", "\t", "\t", "T", "O", "K", "E", "N", " ", "=", " ", "T", "o",
      "k", "_", "T", "O", "K", "E", "N", "\n", "\t", "\t", "F", "U", "Z",
      "Z", "B", "A", "Z", "\n", "\t", "\t", "%", "l", "a", "n", "g", "u",
      "a", "g", "e", " ", "=", " ", "c", "\n", "\t", "\t", "%", "l", "e",
      "x", "e", "r", "_", "e", "n", "t", "r", "y", " ", "=", " ", "L", "e",
      "x", "_", "g", "e", "t", "N", "e", "x", "t", "T", "o", "k", "e", "n",
      "(", ")", ";", "\n", "\t", "\t", "%", "%", "\n", "\t", "\t", "#",
      " ", "e", "m", "p", "t", "y", " ", "g", "r", "a", "m", "m", "a", "r",
      " ", "s", "e", "c", "t", "i", "o", "n", "\n", "\t", "\t", "%", "%",
      "\n", "\t", "\t", "u", "s", "e", "r", "_", "c", "o", "d", "e", " ",
      "a", "n", "d", " ", "s", "t", "u", "f", "f", "\n", "\t", "\t">>

\* test_parsegen.py line 84: "\n\t\t\n\t\tWORLD\n\t\t\n\t\t%language = C\n\t\t%prefix = yy\n\t\t%lexer_function = Lex_getNextToken()\n\t\t%token_type = Lex_Token\n\n\t\t%%\n\t\t\n\t\tmain := hello\n\t\t\n\t\thello := WORLD\n\t\t\n\t\t%%\n\t\t\n\t\thello world\n\t\t\n\t\t"
TestBuffer3 ==
    <<"\n", "\t", "\t", "\n", "\t", "\t", "W", "O", "R", "L", "D", "\n",
      "\t", "\t", "\n", "\t", "\t", "%", "l", "a", "n", "g", "u", "a", "g",
      "e", " ", "=", " ", "C", "\n", "\t", "\t", "%", "p", "r", "e", "f",
      "i", "x", " ", "=", " ", "y", "y", "\n", "\t", "\t", "%", "l", "e",
      "x", "e", "r", "_", "f", "u", "n", "c", "t", "i", "o", "n", " ", "=",
      " ", "L", "e", "x", "_", "g", "e", "t", "N", "e", "x", "t", "T", "o",
      "k", "e", "n", "(", ")", "\n", "\t", "\t", "%", "t", "o", "k", "e",
      "n", "_", "t", "y", "p", "e", " ", "=", " ", "L", "e", "x", "_", "T",
      "o", "k", "e", "n", "\n", "\n", "\t", "\t", "%", "%", "\n", "\t",
      "\t", "\n", "\t", "\t", "m", "a", "i", "n", " ", ":", "=", " ", "h",
      "e", "l", "l", "o", "\n", "\t", "\t", "\n", "\t", "\t", "h", "e",
      "l", "l", "o", " ", ":", "=", " ", "W", "O", "R", "L", "D", "\n",
      "\t", "\t", "\n", "\t", "\t", "%", "%", "\n", "\t", "\t", "\n", "\t",
      "\t", "h", "e", "l", "l", "o", " ", "w", "o", "r", "l", "d", "\n",
      "\t", "\t", "\n", "\t", "\t">>

\* test_parsegen.py line 111: " %% %% %% "
TestBuffer4 ==
    <<" ", "%", "%", " ", "%", "%", " ", "%", "%", " ">>

\* test_parsegen.py line 112: " %% "
TestBuffer5 ==
    <<" ", "%", "%", " ">>

\* test_parsegen.py line 115: "\n\t\t%language = c\n\t\tFOO = Tok_FOO\n\t\tBAZ = Tok_BAZ\n\t\tBAR = Tok_BAR\n\t\t%%\n\t\tmain := baz bar_prime BAZ\n\t\tbar  := FOO BAR\n\t\tbar_prime := bar bar_prime\n\t\tbar_prime := \n\t\tbaz := bar_prime\n\t\tbaz := BAZ\n\t\t%%\n\t\t// this is a comment\n\t\t"
TestBuffer6 ==
    <<"\n", "\t", "\t", "%", "l", "a", "n", "g", "u", "a", "g", "e", " ",
      "=", " ", "c", "\n", "\t", "\t", "F", "O", "O", " ", "=", " ", "T",
      "o", "k", "_", "F", "O", "O", "\n", "\t", "\t", "B", "A", "Z", " ",
      "=", " ", "T", "o", "k", "_", "B", "A", "Z", "\n", "\t", "\t", "B",
      "A", "R", " ", "=", " ", "T", "o", "k", "_", "B", "A", "R", "\n",
      "\t", "\t", "%", "%", "\n", "\t", "\t", "m", "a", "i", "n", " ", ":",
      "=", " ", "b", "a", "z", " ", "b", "a", "r", "_", "p", "r", "i", "m",
      "e", " ", "B", "A", "Z", "\n", "\t", "\t", "b", "a", "r", " ", " ",
      ":", "=", " ", "F", "O", "O", " ", "B", "A", "R", "\n", "\t", "\t",
      "b", "a", "r", "_", "p", "r", "i", "m", "e", " ", ":", "=", " ", "b",
      "a", "r", " ", "b", "a", "r", "_", "p", "r", "i", "m", "e", "\n",
      "\t", "\t", "b", "a", "r", "_", "p", "r", "i", "m", "e", " ", ":",
      "=", " ", "\n", "\t", "\t", "b", "a", "z", " ", ":", "=", " ", "b",
      "a", "r", "_", "p", "r", "i", "m", "e", "\n", "\t", "\t", "b", "a",
      "z", " ", ":", "=", " ", "B", "A", "Z", "\n", "\t", "\t", "%", "%",
      "\n", "\t", "\t", "/", "/", " ", "t", "h", "i", "s", " ", "i", "s",
      " ", "a", " ", "c", "o", "m", "m", "e", "n", "t", "\n", "\t", "\t">>

\* test_parsegen.py line 164: " %% main := TOKEN %% "
TestBuffer7 ==
    <<" ", "%", "%", " ", "m", "a", "i", "n", " ", ":", "=", " ", "T", "O",
      "K", "E", "N", " ", "%", "%", " ">>

\* test_parsegen.py line 166: " %% main := fdass %% "
TestBuffer8 ==
    <<" ", "%", "%", " ", "m", "a", "i", "n", " ", ":", "=", " ", "f", "d",
      "a", "s", "s", " ", "%", "%", " ">>

\* test_parsegen.py line 168: "TOKEN %% TOKEN := invalid \n invalid := %% "
TestBuffer9 ==
    <<"T", "O", "K", "E", "N", " ", "%", "%", " ", "T", "O", "K", "E", "N",
      " ", ":", "=", " ", "i", "n", "v", "a", "l", "i", "d", " ", "\n",
      " ", "i", "n", "v", "a", "l", "i", "d", " ", ":", "=", " ", "%", "%",
      " ">>

TestBuffers ==
    {TestBuffer1, TestBuffer2, TestBuffer3, TestBuffer4, TestBuffer5,
     TestBuffer6, TestBuffer7, TestBuffer8, TestBuffer9}

----------------------------------------------------------------------------
(* parse_buffer and write_grammar                                          *)

\* Before parse_file has read anything.
Init ==
    /\ buffer = <<>>
    /\ pc = "parse_file"
    /\ sects = <<>>
    /\ terminals = EmptyDict
    /\ options = EmptyDict
    /\ order = <<>>
    /\ expansions = EmptyDict
    /\ user_code = <<>>
    /\ err = NoError
    /\ si = 0
    /\ ei = 0
    /\ changed = FALSE
    /\ passes = 0
    /\ out = <<>>

\* parse_file, lines 199-205: the contents read become the buffer parsed.
\* Here the file is one of the buffers of the tests or a generated grammar.
ParseFile ==
    /\ pc = "parse_file"
    /\ UNCHANGED passes
    /\ buffer' \in TestBuffers \/ GeneratedGrammar(buffer')
    /\ pc' = "parse_buffer"
    /\ UNCHANGED <<sects, terminals, options, order, expansions, user_code,
                   err, si, ei, changed, out>>

\* parse_buffer, lines 176-180: the split and the unpacking of the sections.
SplitSections ==
    /\ pc = "parse_buffer"
    /\ UNCHANGED passes
    /\ sects' = Split(buffer, Delimiter)
    /\ IF Len(sects') # 3
       THEN /\ err' = ParseError(Len(sects'))
            /\ pc' = "raised"
            /\ UNCHANGED user_code
       ELSE /\ user_code' = sects'[3]
            /\ pc' = "_process_header"
            /\ UNCHANGED err
    /\ UNCHANGED <<buffer, terminals, options, order, expansions, si, ei,
                   changed, out>>

\* parse_buffer, line 183
ProcessHeader ==
    /\ pc = "_process_header"
    /\ UNCHANGED passes
    /\ LET header == _process_header(sects[1])
       IN  /\ terminals' = header.terminals
           /\ options' = header.options
    /\ pc' = "_process_expansions"
    /\ UNCHANGED <<buffer, sects, order, expansions, user_code, err, si, ei,
                   changed, out>>

\* parse_buffer, line 186
ProcessExpansions ==
    /\ pc = "_process_expansions"
    /\ UNCHANGED passes
    /\ LET exps == _process_expansions(sects[2])
       IN  /\ order' = exps.order
           /\ expansions' = exps.map
    /\ pc' = "_initialise_expansions_state"
    /\ si' = 1
    /\ UNCHANGED <<buffer, sects, terminals, options, user_code, err, ei,
                   changed, out>>

\* _initialise_expansions_state: one symbol of the outer loop, or its end
\* (then `changed = True` of _compute_sets_for_expansions).
InitialiseExpansionsState ==
    /\ pc = "_initialise_expansions_state"
    /\ UNCHANGED passes
    /\ IF si > Len(order)
       THEN /\ changed' = TRUE
            /\ pc' = "while"
            /\ UNCHANGED <<expansions, err, si>>
       ELSE LET r == _initialise_symbol(terminals, expansions, order[si])
            IN  /\ expansions' = [expansions EXCEPT ![order[si]] = r.symbol]
                /\ IF r.err # NoError
                   THEN err' = r.err /\ pc' = "raised" /\ UNCHANGED si
                   ELSE si' = si + 1 /\ UNCHANGED <<err, pc>>
                /\ UNCHANGED changed
    /\ UNCHANGED <<buffer, sects, terminals, options, order, user_code, ei, out>>

\* _compute_sets_for_expansions: the test of `while changed`.  passes counts
\* the passes begun (it is not a variable of the source).
WhileChanged ==
    /\ pc = "while"
    /\ IF changed
       THEN /\ changed' = FALSE /\ si' = 1 /\ ei' = 1 /\ pc' = "for"
            /\ passes' = passes + 1
       ELSE pc' = "returned" /\ UNCHANGED <<changed, si, ei, passes>>
    /\ UNCHANGED <<buffer, sects, terminals, options, order, expansions,
                   user_code, err, out>>

\* _compute_sets_for_expansions: one iteration of the for loop over
\* _each_expansion, or its end.
ForEachExpansion ==
    /\ pc = "for"
    /\ UNCHANGED passes
    /\ IF si > Len(order)
       THEN pc' = "while" /\ UNCHANGED <<expansions, changed, si, ei>>
       ELSE LET name == order[si]
                expansion == expansions[name].expansions[ei]
                r == _update_first_from_expansion(terminals, expansions, name,
                                                  expansion)
                s == _update_follow_from_expansion(terminals, name, expansion)
            IN  /\ expansions' = r.map
                /\ changed' = (changed \/ r.changed \/ s)
                /\ IF ei < Len(expansions[name].expansions)
                   THEN ei' = ei + 1 /\ UNCHANGED si
                   ELSE ei' = 1 /\ si' = si + 1
                /\ UNCHANGED pc
    /\ UNCHANGED <<buffer, sects, terminals, options, order, user_code, err, out>>

\* write_grammar, lines 214-215, and the heading of _write_expansions_to_file.
WriteGrammar ==
    /\ pc = "returned"
    /\ UNCHANGED passes
    /\ out' = _write_header_to_file(options) \o _write_helpers_to_file(options)
              \o <<Emit("section: main automaton", <<>>, 0, <<>>)>>
    /\ pc' = "_write_expansions_to_file"
    /\ si' = 1
    /\ ei' = 0
    /\ UNCHANGED <<buffer, sects, terminals, options, order, expansions,
                   user_code, err, changed>>

WriteSymbolFunctionBegin ==
    /\ pc = "_write_expansions_to_file"
    /\ UNCHANGED passes
    /\ si <= Len(order)
    /\ ei = 0
    /\ out' = out \o _write_symbol_function_begin(terminals, options, order[si],
                                                  expansions[order[si]])
    /\ ei' = 1
    /\ UNCHANGED <<buffer, pc, sects, terminals, options, order, expansions,
                   user_code, err, si, changed>>

WriteBodyForExpansion ==
    /\ pc = "_write_expansions_to_file"
    /\ UNCHANGED passes
    /\ si <= Len(order)
    /\ ei \in 1..Len(expansions[order[si]].expansions)
    /\ LET expansion == expansions[order[si]].expansions[ei]
       IN  IF expansion = <<>>
           THEN out' = out
           ELSE \E cases \in Orderings(_predicting_terms(terminals, expansions,
                                                         expansion)) :
                   out' = out \o _write_body_for_expansion(
                              terminals, expansions, order[si], expansion, cases)
    /\ ei' = ei + 1
    /\ UNCHANGED <<buffer, pc, sects, terminals, options, order, expansions,
                   user_code, err, si, changed>>

WriteSymbolFunctionEnd ==
    /\ pc = "_write_expansions_to_file"
    /\ UNCHANGED passes
    /\ si <= Len(order)
    /\ ei = Len(expansions[order[si]].expansions) + 1
    /\ out' = out \o _write_symbol_function_end
    /\ si' = si + 1
    /\ ei' = 0
    /\ UNCHANGED <<buffer, pc, sects, terminals, options, order, expansions,
                   user_code, err, changed>>

WriteUserCode ==
    /\ pc = "_write_expansions_to_file"
    /\ UNCHANGED passes
    /\ si > Len(order)
    /\ out' = out \o _write_user_code_to_file(user_code)
    /\ pc' = "written"
    /\ UNCHANGED <<buffer, sects, terminals, options, order, expansions,
                   user_code, err, si, ei, changed>>

\* parse_buffer and write_grammar on the buffer read.
Run ==
    \/ SplitSections
    \/ ProcessHeader
    \/ ProcessExpansions
    \/ InitialiseExpansionsState
    \/ WhileChanged
    \/ ForEachExpansion
    \/ WriteGrammar
    \/ WriteSymbolFunctionBegin
    \/ WriteBodyForExpansion
    \/ WriteSymbolFunctionEnd
    \/ WriteUserCode

Next == ParseFile \/ Run

Spec == Init /\ [][Next]_vars

\* parse_file on a raw buffer: any text over a few characters.
RawCharacters == {"%", "a", " ", "\n"}

ParseRawFile ==
    /\ pc = "parse_file"
    /\ UNCHANGED passes
    /\ \/ buffer' \in TestBuffers
       \/ \E n \in 0..MaxBuffer : buffer' \in [1..n -> RawCharacters]
    /\ pc' = "parse_buffer"
    /\ UNCHANGED <<sects, terminals, options, order, expansions, user_code,
                   err, si, ei, changed, out>>

SplitSpec == Init /\ [][ParseRawFile \/ Run]_vars

\* parse_file on a header of some of these lines, with no rules and no code.
HeaderLines ==
    { <<"k", "=", "v">>,
      <<"k", " ", "=", " ", "w", " ">>,
      <<"%", "k", "=", "v">>,
      <<"%", " ", "k", " ", "=", "w">>,
      <<"k">>,
      <<"%", "k">>,
      <<"j", "=", "v", "=", "w">>,
      <<"%", "j", "=", "v", " ", "#", "w">>,
      <<"=", "v">>,
      <<"%">>,
      <<" ", "#", "k", "=", "v">>,
      <<>> }

ParseHeaderFile ==
    /\ pc = "parse_file"
    /\ UNCHANGED passes
    /\ \/ buffer' \in TestBuffers
       \/ \E n \in 0..MaxLines :
            \E lines \in [1..n -> HeaderLines] :
               buffer' = Join(lines, <<"\n">>) \o Delimiter \o Delimiter
    /\ pc' = "parse_buffer"
    /\ UNCHANGED <<sects, terminals, options, order, expansions, user_code,
                   err, si, ei, changed, out>>

HeaderSpec == Init /\ [][ParseHeaderFile \/ Run]_vars

\* parse_file on a rules section of some of these lines, under the header
\* of the generated grammars.
RuleLines ==
    { <<"a", ":", "=", "b">>,
      <<"a", " ", ":", "=", " ", "t", " ", " ", "b", " ">>,
      <<"a", ":", "=">>,
      <<"a">>,
      <<"b", ":", "=", "a", "\t", "t">>,
      <<"b", ":", "=", "t", " ", "#", "a">>,
      <<"b", " ", ":", "=">>,
      <<"a", ":", "=", "b", ":", "=", "t">>,
      <<"#", "a", ":", "=", "b">>,
      <<" ">> }

ParseRulesFile ==
    /\ pc = "parse_file"
    /\ UNCHANGED passes
    /\ \/ buffer' \in TestBuffers
       \/ \E n \in 0..MaxLines :
            \E lines \in [1..n -> RuleLines] :
               buffer' = GrammarHeader \o Delimiter \o Join(lines, <<"\n">>)
                         \o Delimiter
    /\ pc' = "parse_buffer"
    /\ UNCHANGED <<sects, terminals, options, order, expansions, user_code,
                   err, si, ei, changed, out>>

RulesSpec == Init /\ [][ParseRulesFile \/ Run]_vars

----------------------------------------------------------------------------
(* The grammar as parsed, and its textbook sets                            *)

\* parse_buffer has got past _initialise_expansions_state, or has raised.
Validated == pc \in {"while", "for", "returned", "_write_expansions_to_file",
                     "written"}
Returned == pc \in {"returned", "_write_expansions_to_file", "written"}

Nonterminals == DOMAIN expansions
Terminals == DOMAIN terminals

\* All expansions of the symbol named n, and all tokens used anywhere.
ExpansionsOf(n) == Range(expansions[n].expansions)
TokensUsed == UNION {Range(x) : x \in UNION {ExpansionsOf(n) : n \in Nonterminals}}
UndefinedTokens == TokensUsed \ (Terminals \cup Nonterminals)
CollidingNames == Nonterminals \cap Terminals

\* The least set N of nonterminals with: n is in N when some expansion of n
\* consists of members of N only (the empty expansion included).
RECURSIVE NullableFrom(_)
NullableFrom(N) ==
    LET more == {n \in Nonterminals :
                   \E x \in ExpansionsOf(n) : Range(x) \subseteq N}
    IN  IF more \subseteq N THEN N ELSE NullableFrom(N \cup more)

TextbookNullable == NullableFrom({})

\* The terminals that begin the expansion x, given FIRST sets F: those of
\* every token reached through a prefix of nullable nonterminals.
FirstOfExpansion(F, x) ==
    UNION {IF x[p] \in Terminals THEN {x[p]} ELSE F[x[p]] :
             p \in {q \in 1..Len(x) :
                      \A r \in 1..(q - 1) : x[r] \in TextbookNullable}}

\* The least FIRST sets: the terminals t such that a derivation from n
\* yields a sentential form that begins with t.
RECURSIVE FirstFrom(_)
FirstFrom(F) ==
    LET G == [n \in Nonterminals |->
                F[n] \cup UNION {FirstOfExpansion(F, x) : x \in ExpansionsOf(n)}]
    IN  IF G = F THEN F ELSE FirstFrom(G)

TextbookFirst == FirstFrom([n \in Nonterminals |-> {}])

----------------------------------------------------------------------------
(* Claims                                                                  *)

\* C1: when parse_buffer returns, every symbol's first is exactly the
\* textbook FIRST set of the symbol, also when a terminal follows a prefix
\* of nullable nonterminals in an expansion.
C1_FirstIsTextbookFirst ==
    Returned => \A n \in Nonterminals : expansions[n].first = TextbookFirst[n]

\* C2: when parse_buffer returns, a symbol is nullable exactly when it is in
\* the least set of symbols having an expansion that is empty or made of
\* nullable nonterminals only.
C2_NullableIsLeastFixpoint ==
    Returned => \A n \in Nonterminals :
                   is_nullable(expansions[n]) <=> n \in TextbookNullable

\* A returned grammar with a symbol nullable only through other symbols and
\* a symbol that is not nullable.
C2_Witness ==
    /\ Returned
    /\ \E n \in Nonterminals :
         /\ <<>> \notin ExpansionsOf(n)
         /\ is_nullable(expansions[n])
    /\ \E n \in Nonterminals : ~is_nullable(expansions[n])

\* C3: once validation has passed, the loop `while changed` ends.  Every
\* pass but the last adds a terminal to a FIRST set or makes a symbol
\* nullable, so the passes begun never exceed one more than the number of
\* (symbol, terminal) pairs and symbols; a pass is a loop over finitely many
\* expansions, and after the last pass the function returns.
C3_FixpointTerminates ==
    /\ passes <= Cardinality(Nonterminals) * (Cardinality(Terminals) + 1) + 1
    /\ pc = "for" => si \in 1..(Len(order) + 1)
    /\ (pc = "while" /\ ~changed /\ passes > 0) =>
          \A n \in Nonterminals :
             \A x \in ExpansionsOf(n) :
                ~_update_first_from_expansion(terminals, expansions, n, x).changed

\* A returned grammar that is mutually recursive with every symbol nullable.
C3_Witness ==
    /\ pc = "returned"
    /\ \E n, m \in Nonterminals :
         /\ n # m
         /\ \E x \in ExpansionsOf(n) : x # <<>> /\ x[1] = m
         /\ \E x \in ExpansionsOf(m) : x # <<>> /\ x[1] = n
    /\ \A n \in Nonterminals : is_nullable(expansions[n])

\* The set computation has left _initialise_expansions_state.
InitialiseEnded ==
    /\ Len(sects) = 3
    /\ pc \notin {"parse_file", "parse_buffer", "_process_header", "_process_expansions",
                  "_initialise_expansions_state"}

UndefinedMessage == "{0} is not defined as a terminal or nonterminal"
CollisionMessage == "expansion for nonterminal {0}"

\* The tokens of all expansions of a symbol, in the order of the text.
RECURSIVE Flatten(_)
Flatten(seqs) == IF seqs = <<>> THEN <<>> ELSE Head(seqs) \o Flatten(Tail(seqs))

\* The first offence of the grammar: the first symbol, in the order of the
\* symbol table, that is named like a terminal or uses an undefined token;
\* of that symbol the collision, else its first undefined token.
OffendingSymbols ==
    {i \in 1..Len(order) :
       \/ order[i] \in Terminals
       \/ Range(Flatten(expansions[order[i]].expansions)) \cap UndefinedTokens # {}}

FirstOffence ==
    LET i == CHOOSE k \in OffendingSymbols : \A m \in OffendingSymbols : k <= m
        n == order[i]
        toks == Flatten(expansions[n].expansions)
        bad == {p \in 1..Len(toks) : toks[p] \in UndefinedTokens}
    IN  IF n \in Terminals THEN GrammarError(CollisionMessage, n)
        ELSE GrammarError(UndefinedMessage,
                          toks[CHOOSE p \in bad : \A q \in bad : p <= q])

\* C4 as stated: with an undefined token t in the grammar, parse_buffer
\* raises a GrammarError that names t, whatever else the grammar contains.
C4_ErrorNamesEveryUndefinedToken ==
    (InitialiseEnded /\ UndefinedTokens # {}) =>
        /\ pc = "raised"
        /\ \A t \in UndefinedTokens : err = GrammarError(UndefinedMessage, t)

\* C4 as amended: with an undefined token in the grammar, parse_buffer
\* raises a GrammarError and returns nothing; the error is the first offence
\* of the grammar, so it names the undefined token t when t is the first
\* undefined token of the first offending symbol and that symbol is not named
\* like a terminal.
C4_ErrorIsFirstOffence ==
    (InitialiseEnded /\ UndefinedTokens # {}) =>
        /\ pc = "raised"
        /\ err = FirstOffence

\* An undefined token is named although the grammar also has a collision.
C4_Witness ==
    /\ pc = "raised"
    /\ err.what = UndefinedMessage
    /\ err.name \in UndefinedTokens
    /\ CollidingNames # {}

\* C5 as stated: with a name n that is a terminal and the left-hand side of
\* a rule, parse_buffer raises a GrammarError that names n, wherever the rule
\* is and whatever else the grammar contains.
C5_ErrorNamesEveryCollidingName ==
    (InitialiseEnded /\ CollidingNames # {}) =>
        /\ pc = "raised"
        /\ \A n \in CollidingNames : err = GrammarError(CollisionMessage, n)

\* C5 as amended: with a colliding name in the grammar, parse_buffer raises
\* a GrammarError and returns nothing; the error is the first offence of the
\* grammar, so it names the colliding name n when no symbol before n in the
\* symbol table collides or uses an undefined token.
C5_CollisionErrorIsFirstOffence ==
    (InitialiseEnded /\ CollidingNames # {}) =>
        /\ pc = "raised"
        /\ err.kind = "grammar error"
        /\ err = FirstOffence
        /\ (\A i \in OffendingSymbols : \E k \in 1..i : order[k] \in Terminals)
              => err.what = CollisionMessage /\ err.name \in CollidingNames

\* A colliding name is named although the grammar also has an undefined token.
C5_Witness ==
    /\ pc = "raised"
    /\ err.what = CollisionMessage
    /\ err.name \in CollidingNames
    /\ UndefinedTokens # {}

\* The places where a delimiter is found when the text is read from the left
\* and delimiters do not overlap: within a run of % characters, every second
\* place that is followed by another %.
DelimiterPlaces(s) ==
    LET RunStart(p) == CHOOSE q \in 1..p :
                          /\ \A r \in q..p : s[r] = "%"
                          /\ q = 1 \/ s[q - 1] # "%"
    IN  {p \in 1..(Len(s) - 1) :
           s[p] = "%" /\ s[p + 1] = "%" /\ (p - RunStart(p)) % 2 = 0}

CountDelimiters(s) == Cardinality(DelimiterPlaces(s))

SplitDone == pc \notin {"parse_file", "parse_buffer"}

\* C6: parse_buffer raises a ParseError exactly when the buffer does not
\* hold exactly two delimiters; the error reports the number of sections
\* found; with three sections whatever parse_buffer returns has as user code
\* the text after the second delimiter, unchanged.
C6_ParseErrorIffNotThreeSections ==
    SplitDone =>
       /\ (err.kind = "parse error") <=> (CountDelimiters(buffer) # 2)
       /\ err.kind = "parse error" =>
             /\ pc = "raised"
             /\ err.count = CountDelimiters(buffer) + 1
       /\ CountDelimiters(buffer) = 2 =>
             LET before == SubSeq(buffer, 1, Len(buffer) - Len(user_code) - 2)
             IN  /\ buffer = before \o Delimiter \o user_code
                 /\ CountDelimiters(before \o <<"%">>) = 1
                 /\ CountDelimiters(user_code) = 0

\* A ParseError for more than three sections.
C6_Witness ==
    /\ pc = "raised"
    /\ err.kind = "parse error"
    /\ err.count > 3

----------------------------------------------------------------------------
(* The header and the rules as written                                     *)

HeaderDone ==
    /\ Len(sects) = 3
    /\ pc \notin {"parse_file", "parse_buffer", "_process_header"}

\* The lines _process_header interprets: without comment, trimmed, not blank.
HeaderText == _processed_lines(sects[1])
OptionLines == {i \in 1..Len(HeaderText) : HeaderText[i][1] = "%"}
TerminalLines == (1..Len(HeaderText)) \ OptionLines

\* The line without its % marker.
Definition(i) ==
    IF i \in OptionLines THEN Drop(HeaderText[i], 1) ELSE HeaderText[i]

HasEquals(l) == \E p \in 1..Len(l) : l[p] = "="
FirstEquals(l) == CHOOSE p \in 1..Len(l) : l[p] = "=" /\ \A q \in 1..(p - 1) : l[q] # "="

\* The key and the value of `key = value`; without `=` the whole line is the
\* key and the value is empty.
KeyOf(i) ==
    LET l == Definition(i)
    IN  IF HasEquals(l) THEN Strip(SubSeq(l, 1, FirstEquals(l) - 1)) ELSE Strip(l)
ValueOf(i) ==
    LET l == Definition(i)
    IN  IF HasEquals(l) THEN Strip(SubSeq(l, FirstEquals(l) + 1, Len(l))) ELSE <<>>

\* The mapping a set of lines defines when the last line of a key wins.
LastWins(idx) ==
    [k \in {KeyOf(i) : i \in idx} |->
       ValueOf(CHOOSE i \in idx :
                  KeyOf(i) = k /\ \A j \in idx : KeyOf(j) = k => j <= i)]

\* C7: after _process_header, options is the mapping of the % lines and
\* terminals the mapping of the other lines, each key with the trimmed value
\* of its last line; a line without `=` gives its trimmed text (after the %
\* marker of an option line) as key, with the empty value.
C7_HeaderLastWriteWins ==
    HeaderDone =>
       /\ options = LastWins(OptionLines)
       /\ terminals = LastWins(TerminalLines)

\* A key given twice with different values as an option and also given as a
\* terminal, and a terminal line without `=`.
C7_Witness ==
    /\ HeaderDone
    /\ \E i, j \in OptionLines :
         /\ i < j
         /\ KeyOf(i) = KeyOf(j)
         /\ ValueOf(i) # ValueOf(j)
         /\ KeyOf(i) \in DOMAIN terminals
         /\ terminals[KeyOf(i)] # options[KeyOf(i)]
    /\ \E i \in TerminalLines : ~HasEquals(Definition(i))

ExpansionsDone ==
    /\ Len(sects) = 3
    /\ pc \notin {"parse_file", "parse_buffer", "_process_header",
                  "_process_expansions"}

\* The rule lines, their left-hand sides and their right-hand sides.
RulesText == _processed_lines(sects[2])
LhsOf(l) == Strip(Partition(l, <<":", "=">>)[1])
RhsOf(l) == SplitWhitespace(Partition(l, <<":", "=">>)[3])

\* The right-hand sides of the lines of the symbol named n, in line order.
RulesOf(n) ==
    LET mine == SelectSeq(RulesText, LAMBDA l : LhsOf(l) = n)
    IN  [k \in 1..Len(mine) |-> RhsOf(mine[k])]

\* C8: after _process_expansions, the symbols are the left-hand sides of the
\* rule lines, in the order of their first lines, and each symbol holds one
\* expansion per line of its own, in line order; its length is the number of
\* those lines.
C8_ExpansionsAccumulateInOrder ==
    ExpansionsDone =>
       /\ DOMAIN expansions = {LhsOf(RulesText[i]) : i \in 1..Len(RulesText)}
       /\ Range(order) = DOMAIN expansions
       /\ Len(order) = Cardinality(DOMAIN expansions)
       /\ \A n \in DOMAIN expansions :
            /\ expansions[n].expansions = RulesOf(n)
            /\ Len(expansions[n].expansions) =
                  Cardinality({i \in 1..Len(RulesText) : LhsOf(RulesText[i]) = n})
       /\ \A a, b \in 1..Len(order) :
            a < b => \E i \in 1..Len(RulesText) :
                        /\ LhsOf(RulesText[i]) = order[a]
                        /\ \A j \in 1..i : LhsOf(RulesText[j]) # order[b]

\* A symbol with two different expansions whose lines have a line of
\* another symbol between them.
C8_Witness ==
    /\ ExpansionsDone
    /\ \E i, j, k \in 1..Len(RulesText) :
         /\ i < j /\ j < k
         /\ LhsOf(RulesText[i]) = LhsOf(RulesText[k])
         /\ LhsOf(RulesText[j]) # LhsOf(RulesText[i])
         /\ RhsOf(RulesText[i]) # RhsOf(RulesText[k])
         /\ Len(expansions[LhsOf(RulesText[i])].expansions) = 2

----------------------------------------------------------------------------
(* The text emitted                                                        *)

\* The terminals predicting a non-empty expansion: its first token if that
\* is a terminal, else the first set of its first token.
PredictingSet(x) ==
    IF x[1] \in Terminals THEN {x[1]} ELSE expansions[x[1]].first

\* The number of nonterminal tokens among the first p tokens of x.
NodesBefore(x, p) == Cardinality({q \in 1..p : x[q] \notin Terminals})

\* The body of the branch of expansion x of the symbol named n.
ExpectedBody(n, x) ==
    [p \in 1..Len(x) |->
       IF x[p] \in Terminals
       THEN Emit("eat_terminal", terminals[x[p]], 0, <<>>)
       ELSE Emit("nodes[i] = sym()", x[p], NodesBefore(x, p - 1), <<>>)]
    \o << Emit("token_action", n, 0,
               [p \in 1..Len(x) |->
                  IF x[p] \in Terminals THEN terminals[x[p]]
                  ELSE _node_temp(NodesBefore(x, p - 1))]),
          Emit("break", <<>>, 0, <<>>) >>

\* What an expansion takes in the output: nothing if it is empty, else one
\* case label per predicting terminal and the body.
BranchLength(x) ==
    IF x = <<>> THEN 0 ELSE Cardinality(PredictingSet(x)) + Len(ExpectedBody(<<>>, x))

RECURSIVE BranchesLength(_)
BranchesLength(xs) ==
    IF xs = <<>> THEN 0 ELSE BranchLength(Head(xs)) + BranchesLength(Tail(xs))

\* The routine of a symbol: its heading, its branches, its end.
RoutineLength(i) == 2 + BranchesLength(expansions[order[i]].expansions)

RECURSIVE RoutinesLength(_)
RoutinesLength(i) == IF i = 0 THEN 0 ELSE RoutineLength(i) + RoutinesLength(i - 1)

PrologueLength ==
    Len(_write_header_to_file(options)) + Len(_write_helpers_to_file(options)) + 1

\* Where the routine of symbol i and the branch of its k-th expansion begin.
RoutineStart(i) == PrologueLength + RoutinesLength(i - 1) + 1
BranchStart(i, k) ==
    RoutineStart(i) + 1
    + BranchesLength(SubSeq(expansions[order[i]].expansions, 1, k - 1))

\* seg is the branch of the non-empty expansion x of the symbol named n.
IsBranch(seg, n, x) ==
    LET P == PredictingSet(x)
        c == Cardinality(P)
    IN  /\ \A k \in 1..c : seg[k].op = "case"
        /\ \E cases \in Orderings(P) :
              \A k \in 1..c : seg[k].text = terminals[cases[k]]
        /\ SubSeq(seg, c + 1, Len(seg)) = ExpectedBody(n, x)

\* C9: what is written for the symbols is, symbol by symbol in table order,
\* the routine of the symbol and in it, expansion by expansion in
\* declaration order, for each expansion that has a first token one case
\* label per terminal of its predicting set followed by its body; the
\* predicting set is the first token if a terminal, else exactly the first
\* set of the first token.  (An empty expansion has no first token; nothing
\* is written for it.)
C9_BranchesFollowPredictingSets ==
    pc = "written" =>
       /\ Len(out) = PrologueLength + RoutinesLength(Len(order)) + 2
       /\ \A i \in 1..Len(order) :
            LET n == order[i]
                xs == expansions[n].expansions
            IN  /\ out[RoutineStart(i)].op = "function"
                /\ out[RoutineStart(i)].text = n
                /\ out[RoutineStart(i) + RoutineLength(i) - 1].op = "end function"
                /\ \A k \in 1..Len(xs) :
                     xs[k] # <<>> =>
                        IsBranch(SubSeq(out, BranchStart(i, k),
                                        BranchStart(i, k) + BranchLength(xs[k]) - 1),
                                 n, xs[k])

\* A written grammar with an expansion that begins with a nullable
\* nonterminal whose first set is empty and goes on with a terminal: no case
\* label is written for that terminal.
C9_Witness ==
    /\ pc = "written"
    /\ \E n \in Nonterminals :
         \E x \in ExpansionsOf(n) :
            /\ Len(x) >= 2
            /\ x[1] \in Nonterminals
            /\ is_nullable(expansions[x[1]])
            /\ expansions[x[1]].first = {}
            /\ x[2] \in Terminals
    /\ \E r \in 1..Len(out) : out[r].op = "token_action" /\ Len(out[r].args) = 2

\* The largest number of nonterminal tokens in an expansion of the symbol.
MaxNodes(n) ==
    LET counts == {NodesBefore(x, Len(x)) : x \in ExpansionsOf(n)} \cup {0}
    IN  CHOOSE c \in counts : \A d \in counts : d <= c

\* The heading of the routine in which place r of the output lies.
RoutineOf(r) ==
    CHOOSE q \in 1..r : out[q].op = "function"
                        /\ \A p \in (q + 1)..r : out[p].op # "function"

\* C10: the slot count declared in the heading of a symbol's routine is the
\* largest number of nonterminal tokens in one of its expansions, and every
\* slot written in the routine has an index from 0 to below that count.
C10_SlotsWithinCount ==
    \A r \in 1..Len(out) :
       /\ out[r].op = "function" => out[r].n = MaxNodes(out[r].text)
       /\ out[r].op = "nodes[i] = sym()" =>
             /\ 0 <= out[r].n
             /\ out[r].n < out[RoutineOf(r)].n

\* A routine with two slots whose second slot has been written, after a
\* routine without slots.
C10_Witness ==
    \E r \in 1..Len(out) :
       /\ out[r].op = "nodes[i] = sym()"
       /\ out[r].n = 1
       /\ out[RoutineOf(r)].n = 2
       /\ \E q \in 1..r : out[q].op = "function" /\ out[q].n = 0

----------------------------------------------------------------------------
(* C11: the set computation never shrinks a symbol                         *)

\* The set computation is running: initialisation or a fixpoint pass.
Computing == pc \in {"_initialise_expansions_state", "while", "for"}

\* Symbol `after` holds everything symbol `before` holds.
NotShrunk(before, after) ==
    /\ before.first \subseteq after.first
    /\ is_nullable(before) => is_nullable(after)
    /\ before.nullable => after.nullable
    /\ after.expansions = before.expansions

\* C11: every step taken during the set computation (the initialisation of
\* one symbol, the test of the while loop, the update from one expansion)
\* leaves every symbol with a FIRST set that includes the one it had, still
\* nullable if it was nullable, and with the same expansions; the symbols
\* and their order stay as they were.
C11_SetsNeverShrink ==
    [][Computing =>
         /\ DOMAIN expansions' = DOMAIN expansions
         /\ order' = order
         /\ \A n \in DOMAIN expansions : NotShrunk(expansions[n], expansions'[n])]_vars

\* A pass is running and some symbol with expansions has been made nullable
\* and holds a terminal that none of its expansions begins with: its state
\* has grown in the passes, beyond what initialisation gave it.
C11_Witness ==
    /\ pc = "for"
    /\ \E n \in DOMAIN expansions :
          /\ expansions[n].nullable
          /\ \E t \in expansions[n].first :
                \A x \in ExpansionsOf(n) : x = <<>> \/ x[1] # t

----------------------------------------------------------------------------
(* C12: FIRST sets hold terminal names                                     *)

\* The set computation has begun: it is running, has raised or has ended.
ComputationBegun ==
    \/ Computing
    \/ Returned
    \/ pc = "raised" /\ err.kind = "grammar error"

\* The emission strings of the header's terminals.
EmissionValues == {terminals[k] : k \in Terminals}

\* C12, as stated: once the set computation has begun every FIRST set holds
\* keys of the terminal mapping only, and holds no nonterminal name, no
\* emission value and no undefined token.
C12_FirstHoldsOnlyTerminalNames ==
    ComputationBegun =>
       \A n \in Nonterminals :
          /\ expansions[n].first \subseteq Terminals
          /\ expansions[n].first \cap Nonterminals = {}
          /\ expansions[n].first \cap EmissionValues = {}
          /\ expansions[n].first \cap UndefinedTokens = {}

\* C12, amended: once the set computation has begun every FIRST set holds
\* keys of the terminal mapping only (hence no undefined token and no name
\* that is only a nonterminal or only an emission string), and once the
\* initialisation has ended without an error no FIRST set holds the name
\* of a nonterminal.
C12_FirstWithinTerminalKeys ==
    /\ ComputationBegun =>
          \A n \in Nonterminals : expansions[n].first \subseteq Terminals
    /\ Validated =>
          \A n \in Nonterminals : expansions[n].first \cap Nonterminals = {}

\* The computation has returned for a grammar with a token that is not a
\* terminal at the head of an expansion, and the symbol of that expansion
\* holds a terminal in its FIRST set.
C12_Witness ==
    /\ Returned
    /\ \E n \in Nonterminals :
          /\ expansions[n].first # {}
          /\ \E x \in ExpansionsOf(n) : x # <<>> /\ x[1] \in Nonterminals

----------------------------------------------------------------------------
(* C13: the sets computed do not depend on the order of the rule lines     *)

\* _initialise_expansions_state from the k-th symbol on: the symbol table as
\* it is left and the error raised, if any.
RECURSIVE _initialise_expansions_state(_, _, _, _)
_initialise_expansions_state(terms, ord, exps, k) ==
    IF k > Len(ord) THEN [map |-> exps, err |-> NoError]
    ELSE LET r == _initialise_symbol(terms, exps, ord[k])
             exps1 == [exps EXCEPT ![ord[k]] = r.symbol]
         IN  IF r.err # NoError THEN [map |-> exps1, err |-> r.err]
             ELSE _initialise_expansions_state(terms, ord, exps1, k + 1)

\* What _each_expansion yields: the name of each symbol, in dict order, with
\* the place of each of its expansions, in list order.
_each_expansion(ord, exps) ==
    Flatten([i \in 1..Len(ord) |->
               [k \in 1..Len(exps[ord[i]].expansions) |-> <<ord[i], k>>]])

\* The body of the while loop from the expansions still to visit: the symbol
\* table as the pass leaves it and whether anything changed.
RECURSIVE _compute_pass(_, _, _, _)
_compute_pass(terms, exps, todo, chg) ==
    IF todo = <<>> THEN [map |-> exps, changed |-> chg]
    ELSE LET name == Head(todo)[1]
             expansion == exps[name].expansions[Head(todo)[2]]
             r == _update_first_from_expansion(terms, exps, name, expansion)
             s == _update_follow_from_expansion(terms, name, expansion)
         IN  _compute_pass(terms, r.map, Tail(todo), chg \/ r.changed \/ s)

\* The while loop cut short: one pass whatever it changed.
_compute_one_pass(terms, ord, exps, chg) ==
    _compute_pass(terms, exps, _each_expansion(ord, exps), FALSE).map

\* `while changed`: passes over all expansions until one changes nothing.
RECURSIVE _compute_while(_, _, _, _)
_compute_while(terms, ord, exps, chg) ==
    IF ~chg THEN exps
    ELSE LET r == _compute_pass(terms, exps, _each_expansion(ord, exps), FALSE)
         IN  _compute_while(terms, ord, r.map, r.changed)

\* _compute_sets_for_expansions as a whole: the symbol table returned, or
\* the one left behind with the error raised.
_compute_sets_for_expansions(terms, ord, exps) ==
    LET i == _initialise_expansions_state(terms, ord, exps, 1)
    IN  IF i.err # NoError THEN i
        ELSE [map |-> _compute_while(terms, ord, i.map, TRUE), err |-> NoError]

\* The symbol table computed for the rule lines taken in the order f.
ComputedInOrder(f) ==
    LET lines == [k \in 1..Len(RulesText) |-> RulesText[f[k]]]
        parsed == _process_expansion_lines(lines, [order |-> <<>>, map |-> EmptyDict])
    IN  _compute_sets_for_expansions(terminals, parsed.order, parsed.map)

\* C13: when the set computation has returned for a grammar, the computation
\* for any permutation of the grammar's rule lines returns too, and gives
\* every symbol the nullable flag and the FIRST set it has here.
C13_SetsIndependentOfRuleOrder ==
    pc = "returned" =>
       \A f \in Orderings(1..Len(RulesText)) :
          LET r == ComputedInOrder(f)
          IN  /\ r.err = NoError
              /\ DOMAIN r.map = DOMAIN expansions
              /\ \A n \in DOMAIN expansions :
                    /\ r.map[n].nullable = expansions[n].nullable
                    /\ is_nullable(r.map[n]) = is_nullable(expansions[n])
                    /\ r.map[n].first = expansions[n].first

\* The computation has returned after two passes that changed something,
\* for a grammar of at least three rule lines and two symbols one of which
\* is nullable with a terminal in its FIRST set, and some permutation of the
\* lines visits the symbols in another order.
C13_Witness ==
    /\ pc = "returned"
    /\ passes >= 3
    /\ Len(RulesText) >= 3
    /\ Len(order) >= 2
    /\ \E n \in DOMAIN expansions :
          expansions[n].nullable /\ expansions[n].first # {}
    /\ \E f \in Orderings(1..Len(RulesText)) :
          LhsOf(RulesText[f[1]]) # order[1]

====
